---- MODULE Spec2Model ----
(***************************************************************************)
(* MTG life counter (src/code.py): one endless polling loop that reads     *)
(* four rotary encoders and four switches, adjusts four players' health,   *)
(* cycles an ambient colour on a 10 ms gate and refreshes the display.     *)
(*                                                                         *)
(* The program is one sequential process.  Its position in the loop body   *)
(* is pc (and n, the slot of the for loop); the hardware (encoder          *)
(* positions, switch levels, the monotonic clock) changes between any two  *)
(* program steps.  Time is counted in units of 10 ms, so that              *)
(* next_color = 0.01 and next_color_step = 0.01 are both 1.                *)
(***************************************************************************)
EXTENDS Integers, Sequences, FiniteSets, TLC

VARIABLES
    players,         \* players[n]: [name, health, text]; text is _text_area.text
    last_positions,  \* line 88
    colors,          \* line 89
    pixels,          \* the four NeoPixels of the rotary breakout
    color_index,     \* line 138
    next_color,      \* line 139
    rgb,             \* <<r, g, b>>, line 137
    ambient,         \* helper.pixel[0]
    blue_led,        \* helper.blue_led
    message,         \* the text last given to matrix.setup_message
    frame_color,     \* the colour of the last matrix.show_message frame
    positions,       \* line 156: the snapshot of the four encoders
    pc, n,           \* position in the loop body, slot of the for loop
    encoders,        \* hardware: encoder[n].position
    switches,        \* hardware: switches[n].value (TRUE = not pressed, pull-up)
    clock,           \* hardware: time.monotonic()
    moves,           \* history: hardware detents so far
    presses,         \* history: presses[s] = level changes of switch s so far
    toggles,         \* history: number of times blue_led was flipped
    fired_at,        \* history: the clock line 144 read when the gate last opened
    tick_players,    \* history: players at the start of the current tick
    tick_last,       \* history: last_positions at the start of the current tick
    tick_colors,     \* history: colors at the start of the current tick
    sw_det,          \* history: what line 159 read this tick, per slot
    sw_rst,          \* history: what line 171 read this tick, per slot
    log,             \* history: the calls of the current tick, in order
    script           \* history: stage of the scripted environment (0 = none)

vars == <<players, last_positions, colors, pixels, color_index, next_color,
          rgb, ambient, blue_led, message, frame_color, positions, pc, n,
          encoders, switches, clock, moves, presses, toggles, fired_at,
          tick_players, tick_last, tick_colors, sw_det, sw_rst, log, script>>

progVars == <<players, last_positions, colors, pixels, color_index,
              next_color, rgb, ambient, blue_led, message, frame_color,
              positions, pc, n, toggles, fired_at, tick_players,
              tick_last, tick_colors, sw_det, sw_rst, log>>

(***************************************************************************)
(* Bounds of the model.                                                    *)
(***************************************************************************)
MaxPos == 2          \* encoder positions stay in -MaxPos..MaxPos
MaxEvents == 3       \* hardware detents and switch level changes in one behaviour
MaxTime == 3         \* last clock value (10 ms units) of Spec
MaxTimeColor == 205  \* last clock value (10 ms units) of SpecColor
MaxTimeLate == 8     \* last clock value (10 ms units) of SpecLate
LowHealth == 1       \* a health SpecLow starts from, beside StartHealth

(***************************************************************************)
(* Program constants.                                                      *)
(***************************************************************************)
NumSlots == 4
StartHealth == 40
ResetHealth == 40
ColorStep == 8
ColorWrap == 256
White == 16777215
BlinkPeriod == 100
next_color_step == 1

Slots == 0 .. (NumSlots - 1)

Names == [s \in Slots |-> "Player " \o ToString(s + 1)]

(***************************************************************************)
(* class Player                                                            *)
(***************************************************************************)
get_health_string(p) == p.name \o ": " \o ToString(p.health)

Player(name) ==
    LET p == [name |-> name, health |-> StartHealth, text |-> ""]
    IN  [p EXCEPT !.text = get_health_string(p)]

update_health_floor(p) ==
    IF p.health >= 0
    THEN [p EXCEPT !.text = p.name \o ": " \o ToString(p.health)]
    ELSE [p EXCEPT !.text = p.name \o ": Out!"]

update_health(p) ==
    IF p.health > 0
    THEN [p EXCEPT !.text = p.name \o ": " \o ToString(p.health)]
    ELSE [p EXCEPT !.text = p.name \o ": Out!"]

increment_health_twice(p) == update_health([p EXCEPT !.health = @ + 2])

increment_health(p) == update_health([p EXCEPT !.health = @ + 1])

decrement_health_floor(p) ==
    IF p.health > 0 THEN update_health([p EXCEPT !.health = @ - 1]) ELSE p

decrement_health(p) == update_health([p EXCEPT !.health = @ - 1])

set_health_keep(p, value) == update_health(p)

set_health(p, value) == update_health([p EXCEPT !.health = value])

(***************************************************************************)
(* The two colour wheels of the libraries the program calls.               *)
(***************************************************************************)
rgb_color_wheel(i) ==
    LET w == i % 255
    IN  IF w < 85 THEN <<255 - w * 3, 0, w * 3>>
        ELSE IF w < 170 THEN <<0, (w - 85) * 3, 255 - (w - 85) * 3>>
        ELSE <<(w - 170) * 3, 255 - (w - 170) * 3, 0>>

colorwheel(c) ==
    LET w == c % 256
    IN  IF w < 85 THEN (255 - w * 3) * 65536 + (w * 3) * 256
        ELSE IF w < 170 THEN (255 - (w - 85) * 3) * 256 + (w - 85) * 3
        ELSE ((w - 170) * 3) * 65536 + (255 - (w - 170) * 3)

wrap_none(c) == c

wrap(c) == (c + ColorWrap) % ColorWrap

(***************************************************************************)
(* The state after lines 1-140.                                            *)
(***************************************************************************)
InitProgram ==
    /\ last_positions = [s \in Slots |-> 0]
    /\ colors = [s \in Slots |-> 0]
    /\ pixels = [s \in Slots |-> 0]
    /\ color_index = 0
    /\ next_color = 1
    /\ rgb = <<0, 0, 0>>
    /\ ambient = <<0, 0, 0>>
    /\ blue_led = FALSE
    /\ message = " Start! "
    /\ frame_color = <<0, 0, 0>>
    /\ positions = [s \in Slots |-> 0]
    /\ pc = "gate"
    /\ n = 0
    /\ toggles = 0
    /\ fired_at = 0 - 1
    /\ tick_players = players
    /\ tick_last = last_positions
    /\ tick_colors = colors
    /\ sw_det = [s \in Slots |-> "none"]
    /\ sw_rst = [s \in Slots |-> "none"]
    /\ log = <<>>

InitHardware ==
    /\ encoders = [s \in Slots |-> 0]
    /\ switches = [s \in Slots |-> TRUE]
    /\ clock = 0
    /\ moves = 0
    /\ presses = [s \in Slots |-> 0]

Init ==
    /\ players = [s \in Slots |-> Player(Names[s])]
    /\ InitProgram
    /\ InitHardware
    /\ script = 0

(***************************************************************************)
(* The loop body, lines 142-178.                                           *)
(***************************************************************************)
GateOpen_early == clock >= next_color

GateOpen_blocked ==
    /\ clock > next_color + next_color_step
    /\ \A s \in Slots : switches[s]

GateOpen == clock > next_color + next_color_step

Advanced_catch_up == color_index + ((clock - next_color) \div next_color_step)

\* line 145
Advanced == color_index + 1

WheelIndex_before == color_index

\* line 146: color_index as line 145 left it
WheelIndex == Advanced

\* lines 144-146
ColorGate ==
    /\ pc = "gate"
    /\ IF GateOpen
       THEN /\ color_index' = Advanced
            /\ rgb' = rgb_color_wheel(WheelIndex)
            /\ fired_at' = clock
            /\ pc' = "stamp"
       ELSE /\ UNCHANGED <<color_index, rgb, fired_at>>
            /\ pc' = "anim"
    /\ log' = <<"gate">>
    /\ UNCHANGED <<players, last_positions, colors, pixels, next_color,
                   ambient, blue_led, message, frame_color, positions, n,
                   toggles, tick_players, tick_last, tick_colors, sw_det,
                   sw_rst>>
    /\ UNCHANGED <<encoders, switches, clock, moves, presses, script>>

Blink_late == color_index % BlinkPeriod = 1

Blink == color_index % BlinkPeriod = 0

\* lines 147-151
ColorStamp ==
    /\ pc = "stamp"
    /\ next_color' = clock
    /\ ambient' = rgb
    /\ IF Blink
       THEN blue_led' = ~blue_led /\ toggles' = toggles + 1
       ELSE UNCHANGED <<blue_led, toggles>>
    /\ pc' = "anim"
    /\ log' = Append(log, "advance")
    /\ UNCHANGED <<players, last_positions, colors, pixels, color_index, rgb,
                   message, frame_color, positions, n, fired_at,
                   tick_players, tick_last, tick_colors, sw_det, sw_rst>>
    /\ UNCHANGED <<encoders, switches, clock, moves, presses, script>>

\* line 153
ShowMessage ==
    /\ pc = "anim"
    /\ frame_color' = rgb
    /\ pc' = "poll"
    /\ log' = Append(log, "show_message")
    /\ UNCHANGED <<players, last_positions, colors, pixels, color_index,
                   next_color, rgb, ambient, blue_led, message, positions, n,
                   toggles, fired_at, tick_players, tick_last, tick_colors,
                   sw_det, sw_rst>>
    /\ UNCHANGED <<encoders, switches, clock, moves, presses, script>>

\* line 156
PollEncoders ==
    /\ pc = "poll"
    /\ positions' = encoders
    /\ pc' = "detent"
    /\ n' = 0
    /\ log' = Append(log, "poll")
    /\ UNCHANGED <<players, last_positions, colors, pixels, color_index,
                   next_color, rgb, ambient, blue_led, message, frame_color,
                   toggles, fired_at, tick_players, tick_last, tick_colors,
                   sw_det, sw_rst>>
    /\ UNCHANGED <<encoders, switches, clock, moves, presses, script>>

Level(v) == IF v THEN "free" ELSE "held"

Forward_flipped(rotary_pos, last) == rotary_pos < last

Forward(rotary_pos, last) == rotary_pos > last

Free_always == TRUE

\* line 159
Free == switches[n]

Consumed_all(rotary_pos) == [s \in Slots |-> rotary_pos]

Consumed_when_free(rotary_pos) ==
    IF switches[n] THEN [last_positions EXCEPT ![n] = rotary_pos]
    ELSE last_positions

\* line 167
Consumed(rotary_pos) == [last_positions EXCEPT ![n] = rotary_pos]

\* lines 158-167, slot n
Detent ==
    /\ pc = "detent"
    /\ LET rotary_pos == positions[n]
       IN  IF rotary_pos # last_positions[n]
           THEN /\ IF Free
                   THEN IF Forward(rotary_pos, last_positions[n])
                        THEN /\ colors' = [colors EXCEPT ![n] = wrap(@ + ColorStep)]
                             /\ players' = [players EXCEPT ![n] = increment_health(@)]
                        ELSE /\ colors' = [colors EXCEPT ![n] = wrap(@ - ColorStep)]
                             /\ players' = [players EXCEPT ![n] = decrement_health(@)]
                   ELSE UNCHANGED <<colors, players>>
                /\ last_positions' = Consumed(rotary_pos)
                /\ sw_det' = [sw_det EXCEPT ![n] = Level(switches[n])]
           ELSE UNCHANGED <<colors, players, last_positions, sw_det>>
    /\ pc' = "reset"
    /\ log' = Append(log, "detent" \o ToString(n))
    /\ UNCHANGED <<pixels, color_index, next_color, rgb, ambient, blue_led,
                   message, frame_color, positions, n, toggles, fired_at,
                   tick_players, tick_last, tick_colors, sw_rst>>
    /\ UNCHANGED <<encoders, switches, clock, moves, presses, script>>

NextSlot_flush == "flush"

SlotPixel_stale == colorwheel(tick_colors[n])

\* line 176
SlotPixel == colorwheel(colors[n])

NextSlot == IF n + 1 < NumSlots THEN "detent" ELSE "flush"

\* lines 171-176, slot n
ResetCheck ==
    /\ pc = "reset"
    /\ IF ~switches[n]
       THEN /\ pixels' = [pixels EXCEPT ![n] = White]
            /\ players' = [players EXCEPT ![n] = set_health(@, ResetHealth)]
            /\ message' = " Life Reset! "
            /\ log' = log \o <<"reset" \o ToString(n), "setup_message">>
       ELSE /\ pixels' = [pixels EXCEPT ![n] = SlotPixel]
            /\ log' = Append(log, "reset" \o ToString(n))
            /\ UNCHANGED <<players, message>>
    /\ sw_rst' = [sw_rst EXCEPT ![n] = Level(switches[n])]
    /\ pc' = NextSlot
    /\ n' = IF n + 1 < NumSlots THEN n + 1 ELSE n
    /\ UNCHANGED <<last_positions, colors, color_index, next_color, rgb,
                   ambient, blue_led, frame_color, positions, toggles,
                   fired_at, tick_players, tick_last, tick_colors, sw_det>>
    /\ UNCHANGED <<encoders, switches, clock, moves, presses, script>>

\* line 178, and the start of the next tick
Refresh ==
    /\ pc = "flush"
    /\ pc' = "gate"
    /\ n' = 0
    /\ log' = Append(log, "refresh")
    /\ tick_players' = players
    /\ tick_last' = last_positions
    /\ tick_colors' = colors
    /\ sw_det' = [s \in Slots |-> "none"]
    /\ sw_rst' = [s \in Slots |-> "none"]
    /\ UNCHANGED <<players, last_positions, colors, pixels, color_index,
                   next_color, rgb, ambient, blue_led, message, frame_color,
                   positions, toggles, fired_at>>
    /\ script' = IF script % 2 = 1 THEN script + 1 ELSE script
    /\ UNCHANGED <<encoders, switches, clock, moves, presses>>

Tick ==
    \/ ColorGate
    \/ ColorStamp
    \/ ShowMessage
    \/ PollEncoders
    \/ Detent
    \/ ResetCheck
    \/ Refresh

(***************************************************************************)
(* The hardware: a detent of encoder s, a level change of switch s, the    *)
(* clock.  The program sees the hardware only when it reads it, so a       *)
(* change is modelled at the program point that reads it next: encoders    *)
(* before line 156, switch n before lines 159 and 171 of slot n, the clock *)
(* before lines 144 and 147.  Several changes may precede one read.        *)
(***************************************************************************)
Sum4(f) == f[0] + f[1] + f[2] + f[3]

Rotate(s, d) ==
    /\ pc = "poll"
    /\ moves + Sum4(presses) < MaxEvents
    /\ encoders[s] + d \in (0 - MaxPos) .. MaxPos
    /\ encoders' = [encoders EXCEPT ![s] = @ + d]
    /\ moves' = moves + 1
    /\ UNCHANGED <<switches, clock, presses, script>>
    /\ UNCHANGED progVars

Flip(s) ==
    /\ pc \in {"detent", "reset"}
    /\ s = n
    /\ moves + Sum4(presses) < MaxEvents
    /\ switches' = [switches EXCEPT ![s] = ~@]
    /\ presses' = [presses EXCEPT ![s] = @ + 1]
    /\ UNCHANGED <<encoders, clock, moves, script>>
    /\ UNCHANGED progVars

Advance(limit) ==
    /\ pc \in {"gate", "stamp"}
    /\ clock < limit
    /\ clock' = clock + 1
    /\ UNCHANGED <<encoders, switches, moves, presses, script>>
    /\ UNCHANGED progVars

Turn == \E s \in Slots, d \in {0 - 1, 1} : Rotate(s, d)

Push == \E s \in Slots : Flip(s)

Time == Advance(MaxTime)

Next == Tick \/ Turn \/ Push \/ Time

Spec == Init /\ [][Next]_vars

(***************************************************************************)
(* SpecLow: the same program and hardware, started either after            *)
(* construction or with every player at LowHealth, a health the players    *)
(* reach after StartHealth - LowHealth backward detents, so that the       *)
(* depleted rendering is within MaxEvents of the start.                    *)
(***************************************************************************)
InitLow ==
    /\ \E h \in {StartHealth, LowHealth} :
           players = [s \in Slots |->
                         update_health([Player(Names[s]) EXCEPT !.health = h])]
    /\ InitProgram
    /\ InitHardware
    /\ script = 0

SpecLow == InitLow /\ [][Next]_vars

(***************************************************************************)
(* SpecColor: the colour cycle over many quanta.  The encoders and the     *)
(* switches rest; the clock moves while the gate is closed, and at most    *)
(* one unit between the reads of lines 144 and 147.                        *)
(***************************************************************************)
Pace ==
    /\ \/ pc = "gate" /\ ~GateOpen
       \/ pc = "stamp" /\ clock = fired_at
    /\ Advance(MaxTimeColor)

NextColor == Tick \/ Pace

SpecColor == Init /\ [][NextColor]_vars

(***************************************************************************)
(* SpecScenario: the scenario of six scripted ticks.  The hardware changes *)
(* of scripted tick k happen before its poll; script = 2k - 1 during the   *)
(* tick and 2k after its refresh.  Unscripted ticks may run in between.    *)
(*   k = 1, 2, 3: encoder 0 one detent forward                             *)
(*   k = 4, 5:    switch 1 held                                            *)
(*   k = 6:       switch 2 held, encoder 2 one detent backward             *)
(***************************************************************************)
Scene ==
    /\ pc = "poll"
    /\ script % 2 = 0
    /\ script < 12
    /\ LET k == (script \div 2) + 1
       IN  /\ encoders' = IF k <= 3 THEN [encoders EXCEPT ![0] = @ + 1]
                          ELSE IF k = 6 THEN [encoders EXCEPT ![2] = @ - 1]
                          ELSE encoders
           /\ \E r \in BOOLEAN :
                  switches' = IF k = 4 THEN [switches EXCEPT ![1] = FALSE]
                              ELSE IF k = 6
                                   THEN [switches EXCEPT ![1] = r, ![2] = FALSE]
                                   ELSE switches
    /\ script' = script + 1
    /\ UNCHANGED <<clock, moves, presses>>
    /\ UNCHANGED progVars

NextScenario == Tick \/ Scene \/ Time

SpecScenario == Init /\ [][NextScenario]_vars

(***************************************************************************)
(* SpecBoot: the same program and hardware, with the encoders standing at  *)
(* a position of -MaxPos..MaxPos when line 88 sets last_positions.         *)
(***************************************************************************)
InitBoot ==
    /\ players = [s \in Slots |-> Player(Names[s])]
    /\ InitProgram
    /\ \E p \in (0 - MaxPos) .. MaxPos : encoders = [s \in Slots |-> p]
    /\ switches = [s \in Slots |-> TRUE]
    /\ clock = 0
    /\ moves = 0
    /\ presses = [s \in Slots |-> 0]
    /\ script = 0

SpecBoot == InitBoot /\ [][Next]_vars

(***************************************************************************)
(* SpecLate: the colour cycle under a clock that may run any distance      *)
(* ahead between two reads; the encoders and the switches rest.            *)
(***************************************************************************)
Late == Advance(MaxTimeLate)

NextLate == Tick \/ Late

SpecLate == Init /\ [][NextLate]_vars

(***************************************************************************)
(* Properties.                                                             *)
(***************************************************************************)
Health == [s \in Slots |-> players[s].health]

Rendering(s) ==
    IF players[s].health <= 0
    THEN Names[s] \o ": Out!"
    ELSE Names[s] \o ": " \o ToString(players[s].health)

\* C1: in every reachable state each player's display text is
\* "<label>: Out!" exactly when the health is <= 0 and "<label>: <health>"
\* with the current health otherwise.
C1_TextFollowsHealth ==
    \A s \in Slots :
        /\ players[s].name = Names[s]
        /\ players[s].text = Rendering(s)

C1_Witness ==
    \E s \in Slots :
        /\ players[s].health < 0
        /\ tick_players[s].health = 0
        /\ players[s].text = Names[s] \o ": Out!"

Delta(s) == players[s].health - tick_players[s].health

\* C2: at the end of a tick in which slot s's switch read not-held, the
\* health of s has changed by +1 if the polled position was above
\* last_positions[s], by -1 if it was below, and not at all if it was equal.
C2_DetentAdjustsByOne ==
    pc = "flush" =>
        \A s \in Slots :
            (sw_rst[s] = "free" /\ sw_det[s] # "held") =>
                /\ positions[s] > tick_last[s] => Delta(s) = 1
                /\ positions[s] < tick_last[s] => Delta(s) = 0 - 1
                /\ positions[s] = tick_last[s] => Delta(s) = 0

C2_Witness ==
    /\ pc = "flush"
    /\ \E s \in Slots :
           /\ sw_rst[s] = "free"
           /\ sw_det[s] = "free"
           /\ positions[s] < tick_last[s]
           /\ Delta(s) = 0 - 1

\* C3: at the end of every tick last_positions[s] is the position polled
\* for s in that tick, for every slot and whichever branch was taken.
C3_LastIsPolled ==
    pc = "flush" => \A s \in Slots : last_positions[s] = positions[s]

C3_Witness ==
    /\ pc = "flush"
    /\ \E s \in Slots :
           /\ positions[s] # tick_last[s]
           /\ sw_det[s] = "held"
           /\ last_positions[s] = positions[s]

\* C4: for a slot whose switch never read held, the health at the end of
\* every tick is StartHealth plus the encoder's net position change since
\* startup, however many detents lie between two polls.
C4_EveryDetentCounts ==
    pc = "flush" =>
        \A s \in Slots :
            presses[s] = 0 => players[s].health = StartHealth + positions[s]

\* C5: once the reset check of a tick has read slot s's switch as held, the
\* health of s is exactly 40 for the rest of the tick, in every such tick.
C5_HeldForcesForty ==
    \A s \in Slots : sw_rst[s] = "held" => players[s].health = 40

C5_Witness ==
    /\ pc = "flush"
    /\ \E s \in Slots :
           /\ sw_rst[s] = "held"
           /\ tick_players[s].health # 40
           /\ positions[s] # tick_last[s]
           /\ players[s].health = 40

\* C6: a detent observed while slot s's switch reads held records the polled
\* position in last_positions[s], leaves the colour offset of s alone and
\* neither increments nor decrements the health of s (only the reset check
\* may then set it to 40).
C6_HeldDetentConsumed ==
    \A s \in Slots :
        sw_det[s] = "held" =>
            /\ last_positions[s] = positions[s]
            /\ colors[s] = tick_colors[s]
            /\ IF sw_rst[s] = "held"
               THEN players[s].health = ResetHealth
               ELSE players[s] = tick_players[s]

C6_Witness ==
    /\ pc = "flush"
    /\ \E s \in Slots :
           /\ sw_det[s] = "held"
           /\ positions[s] # tick_last[s]
           /\ tick_players[s].health # ResetHealth
           /\ colors[s] = tick_colors[s]

\* C7: after the six scripted ticks (three forward detents on slot 0, two
\* ticks with switch 1 held, one backward detent on slot 2 with switch 2
\* held) the healths are 43, 40, 40, 40; the health of slot 1 is 40 after
\* each of its held ticks and last_positions[2] is the new position of
\* encoder 2.
C7_Scenario ==
    /\ (pc = "gate" /\ script \in {8, 10}) => players[1].health = 40
    /\ (pc = "gate" /\ script = 12) =>
           /\ Health = (0 :> 43 @@ 1 :> 40 @@ 2 :> 40 @@ 3 :> 40)
           /\ encoders[2] = 0 - 1
           /\ last_positions[2] = encoders[2]

C7_Witness ==
    /\ pc = "gate"
    /\ script = 12
    /\ players[0].health = 43

Advances == IF pc = "stamp" THEN color_index - 1 ELSE color_index

\* C8: after k completed colour advances the auxiliary indicator has been
\* toggled exactly floor(k / 100) times.
C8_TogglesEveryHundredth ==
    /\ toggles = Advances \div 100
    /\ blue_led = (toggles % 2 = 1)

C8_Witness ==
    /\ toggles = 1
    /\ color_index > 100
    /\ blue_led

ColorState == <<color_index, rgb, next_color, ambient, blue_led, toggles>>

\* C9: a gate evaluated at the clock value of the last firing, or at any
\* clock value not beyond next_color + next_color_step, changes nothing of
\* the colour cycle; and next_color strictly increases whenever it changes.
C9_GateFiresOncePerNow ==
    [][/\ (pc = "gate" /\ (clock = fired_at \/ clock <= next_color + next_color_step))
           => ColorState' = ColorState
       /\ next_color' # next_color => next_color' > next_color]_vars

C9_Witness ==
    /\ pc = "anim"
    /\ log = <<"gate">>
    /\ clock = fired_at
    /\ color_index >= 2

ExpectedTick ==
    <<"gate", "show_message", "poll", "detent0", "reset0", "detent1", "reset1",
      "detent2", "reset2", "detent3", "reset3", "refresh">>

IsStep(e) == e \notin {"advance", "setup_message"}

Steps == SelectSeq(log, IsStep)

Count(e) == Cardinality({i \in 1 .. Len(log) : log[i] = e})

\* C10: the calls of a tick are, in order, the colour gate (with its advance
\* directly after it, if any), one animation tick, the poll, then for slots 0,
\* 1, 2, 3 the detent check followed by the reset check, and last one display
\* refresh; no refresh lies between two slots.
C10_TickOrder ==
    /\ Len(Steps) <= Len(ExpectedTick)
    /\ Steps = SubSeq(ExpectedTick, 1, Len(Steps))
    /\ Count("advance") <= 1
    /\ Count("advance") = 1 => log[2] = "advance"
    /\ (pc = "gate" /\ log # <<>>) => (Steps = ExpectedTick /\ Count("refresh") = 1)
    /\ pc = "flush" => Len(Steps) = Len(ExpectedTick) - 1

C10_Witness ==
    /\ pc = "gate"
    /\ Count("advance") = 1
    /\ Count("setup_message") = 1
    /\ Steps = ExpectedTick

\* C11: within one tick the detent check and the reset check of a slot act
\* on the same switch value: whenever both have read the switch of slot s in
\* the current tick, they read the same level.
C11_OneSamplePerTick ==
    \A s \in Slots :
        (sw_det[s] # "none" /\ sw_rst[s] # "none") => sw_det[s] = sw_rst[s]

\* C12: while no encoder has moved since startup and the switch of slot s
\* has never been pressed, the health of s is StartHealth at the end of every
\* tick, whatever position the encoders stood at on startup.
C12_RestingCounterStays ==
    pc = "flush" =>
        \A s \in Slots :
            (moves = 0 /\ presses[s] = 0) => players[s].health = StartHealth

\* C13: a backward detent with the switch not held lowers the health by
\* exactly 1 from any value, also from values <= 0; a health <= 0 is shown as
\* "Out!", and a forward detent from 0 shows "<label>: 1".
C13_NoFloor ==
    pc = "flush" =>
        \A s \in Slots :
            (sw_det[s] = "free" /\ sw_rst[s] = "free") =>
                /\ positions[s] < tick_last[s] =>
                       /\ players[s].health = tick_players[s].health - 1
                       /\ players[s].health <= 0 =>
                              players[s].text = Names[s] \o ": Out!"
                /\ (positions[s] > tick_last[s] /\ tick_players[s].health = 0) =>
                       players[s].text = Names[s] \o ": 1"

C13_Witness ==
    /\ pc = "flush"
    /\ \E s \in Slots :
           /\ sw_det[s] = "free"
           /\ sw_rst[s] = "free"
           /\ positions[s] < tick_last[s]
           /\ tick_players[s].health <= 0
           /\ players[s].health = tick_players[s].health - 1
           /\ players[s].text = Names[s] \o ": Out!"

\* C14: at every point of a tick the health of each slot is the health it
\* had at the start of the tick, that health plus 1, that health minus 1, or
\* 40.
C14_OnlyThreeMutations ==
    \A s \in Slots :
        \/ Delta(s) \in {0 - 1, 0, 1}
        \/ players[s].health = 40

C14_Witness ==
    /\ pc = "flush"
    /\ \E s, t \in Slots :
           /\ Delta(s) = 1
           /\ tick_players[t].health # 40
           /\ players[t].health = 40

Fired == color_index >= 1 /\ pc # "stamp"

\* C15 as stated: after a firing the colour of the ambient pixel is the
\* colour wheel at the value color_index had before the firing's increment.
C15_WheelBeforeIncrement ==
    Fired => ambient = rgb_color_wheel(color_index - 1)

\* C15 as amended: after a firing the colour of the ambient pixel (and
\* r, g, b) is the colour wheel at the value color_index has after the
\* firing's increment, which is exactly one more than before; the first
\* firing shows the colour of index 1.
C15_WheelAfterIncrement ==
    /\ [](Fired => (ambient = rgb_color_wheel(color_index) /\ rgb = ambient))
    /\ []((color_index = 1 /\ pc # "stamp") => ambient = <<252, 0, 3>>)
    /\ [][color_index' # color_index => color_index' = color_index + 1]_vars

C15_Witness ==
    /\ Fired
    /\ color_index >= 2
    /\ ambient = rgb_color_wheel(color_index)
    /\ ambient # rgb_color_wheel(color_index - 1)

\* C16: color_index changes only at the gate, the first call of a tick, by
\* exactly 1 however far the clock is past next_color, and only when the
\* clock read there is more than next_color_step past next_color.
C16_NoCatchUp ==
    [][color_index' # color_index =>
           /\ color_index' = color_index + 1
           /\ pc = "gate"
           /\ log' = <<"gate">>
           /\ clock > next_color + next_color_step]_vars

C16_Witness ==
    /\ pc = "stamp"
    /\ color_index = 2
    /\ clock >= next_color + 3 * next_color_step

\* C17: every colour offset is a multiple of 8 in 0..255; at the end of a
\* tick the offset of slot s is the offset at the start of the tick plus 8
\* (mod 256) after a not-held forward detent, minus 8 (mod 256) after a
\* not-held backward detent, and unchanged otherwise (held, or no detent).
C17_ColorOffset ==
    /\ \A s \in Slots : colors[s] \in 0 .. 255 /\ colors[s] % 8 = 0
    /\ pc = "flush" =>
           \A s \in Slots :
               colors[s] =
                   IF sw_det[s] = "free"
                   THEN IF positions[s] > tick_last[s]
                        THEN (tick_colors[s] + 8) % 256
                        ELSE (tick_colors[s] + 248) % 256
                   ELSE tick_colors[s]

C17_Witness ==
    /\ pc = "flush"
    /\ \E s, t \in Slots :
           /\ sw_det[s] = "free"
           /\ tick_colors[s] = 0
           /\ colors[s] = 248
           /\ sw_rst[t] = "held"
           /\ colors[t] = 8

\* C18: once the reset check of a tick has handled slot s, the pixel of s is
\* white if the check read the switch as held and the colour wheel at the
\* slot's colour offset otherwise; the " Life Reset! " message is enqueued
\* once for every slot read as held in the tick.
C18_PixelAndMessage ==
    /\ \A s \in Slots :
           /\ sw_rst[s] = "held" => (pixels[s] = 16777215 /\ message = " Life Reset! ")
           /\ sw_rst[s] = "free" => pixels[s] = colorwheel(colors[s])
    /\ pc \notin {"gate", "stamp"} =>
           Count("setup_message") = Cardinality({s \in Slots : sw_rst[s] = "held"})

C18_Witness ==
    /\ pc = "flush"
    /\ \E s, t \in Slots :
           /\ sw_rst[s] = "held"
           /\ pixels[s] = 16777215
           /\ sw_rst[t] = "free"
           /\ colors[t] # tick_colors[t]
           /\ pixels[t] = colorwheel(colors[t])

SlotState(s) == <<players[s], last_positions[s], colors[s], pixels[s]>>

Untouched(s) ==
    /\ players[s] = tick_players[s]
    /\ last_positions[s] = tick_last[s]
    /\ colors[s] = tick_colors[s]

\* C19: a step changes the health, text, last position, colour offset or
\* pixel of slot s only if it is the detent check or the reset check of slot
\* s; and at the end of a tick a slot without input (position as last seen,
\* switch not held) has the health, last position and colour offset it had at
\* the start of the tick, whatever the input of the other slots.
C19_SlotsIsolated ==
    /\ [][\A s \in Slots :
              SlotState(s)' # SlotState(s) => (s = n /\ pc \in {"detent", "reset"})]_vars
    /\ [](pc = "flush" =>
              \A s \in Slots :
                  (positions[s] = tick_last[s] /\ sw_rst[s] = "free") => Untouched(s))

C19_Witness ==
    /\ pc = "flush"
    /\ \E s, t, u \in Slots :
           /\ positions[s] = tick_last[s] /\ sw_rst[s] = "free" /\ Untouched(s)
           /\ Delta(t) # 0
           /\ sw_rst[u] = "held"
           /\ s > t
           /\ s < u

CycleState == <<color_index, next_color, rgb, ambient>>

PlayerState == <<players, last_positions, colors>>

InputState == <<encoders, switches, positions>>

\* C20: a step that changes the encoders, the switches or the polled
\* positions, or that handles a slot, leaves color_index, next_color and the
\* ambient colour alone; a step that changes these leaves every health, last
\* position and colour offset alone; and a gate that is due fires whatever
\* the switches and encoders read.
C20_CycleIndependent ==
    [][/\ (InputState' # InputState \/ pc \in {"detent", "reset"})
           => CycleState' = CycleState
       /\ CycleState' # CycleState => PlayerState' = PlayerState
       /\ (pc = "gate" /\ pc' # "gate" /\ clock > next_color + next_color_step)
           => color_index' = color_index + 1]_vars

C20_Witness ==
    /\ pc = "stamp"
    /\ color_index = 1
    /\ \E s, t \in Slots :
           /\ ~switches[s]
           /\ last_positions[t] # 0
           /\ players[t].health # StartHealth

====
